---- MODULE Spec2Model ----
(***************************************************************************)
(* Google-Maps business scraper: the field extractor (extract_place), the  *)
(* listing walk (scrape_places / _scrape_places_with_browser) and the job   *)
(* orchestrators (main, ScraperGUI.run_scraper).                            *)
(*                                                                          *)
(* A Python str is a sequence of one-character strings; the characters      *)
(* U+00A0, U+202F and U+22C5 are written "NBSP", "NNBSP" and "CDOT".        *)
(***************************************************************************)
EXTENDS Integers, Sequences, FiniteSets, TLC

VARIABLES
    view,       \* extract_place: the detail view the page shows
    place,      \* extract_place: the Place it returned
    xpc,        \* extract_place: "ready" | "returned" | "raised" ("off" in the other specifications)
    walk,       \* scrape_places with a given browser: the locals of the walk
    errlog,     \* the lines of scrape_errors.log
    run         \* the orchestrators: front end, jobs, sessions, location_results

vars == <<view, place, xpc, walk, errlog, run>>

-----------------------------------------------------------------------------
(* Python str operations                                                    *)

Chars ==
    <<" ", "(", ")", "+", ",", "-", ".", "/",
      "0", "1", "2", "3", "4", "5", "6", "7", "8", "9", ":", ";", "@",
      "A", "B", "C", "D", "E", "F", "G", "H", "I", "J", "K", "L", "M",
      "N", "O", "P", "Q", "R", "S", "T", "U", "V", "W", "X", "Y", "Z", "_",
      "a", "b", "c", "d", "e", "f", "g", "h", "i", "j", "k", "l", "m",
      "n", "o", "p", "q", "r", "s", "t", "u", "v", "w", "x", "y", "z",
      "NBSP", "NNBSP", "CDOT">>

Ord(c) == CHOOSE i \in 1..Len(Chars) : Chars[i] = c

Digits == {"0", "1", "2", "3", "4", "5", "6", "7", "8", "9"}

DigitVal(c) == Ord(c) - Ord("0")

IsUpper(c) == Ord(c) >= Ord("A") /\ Ord(c) <= Ord("Z")

LowerChar(c) == IF IsUpper(c) THEN Chars[Ord(c) - Ord("A") + Ord("a")] ELSE c

Lower(s) == [i \in 1..Len(s) |-> LowerChar(s[i])]

IsSpace(c) == c \in {" ", "NBSP", "NNBSP"}

RECURSIVE LStrip(_)
LStrip(s) == IF s # <<>> /\ IsSpace(Head(s)) THEN LStrip(Tail(s)) ELSE s

RECURSIVE RStrip(_)
RStrip(s) ==
    IF s # <<>> /\ IsSpace(s[Len(s)]) THEN RStrip(SubSeq(s, 1, Len(s) - 1)) ELSE s

Strip(s) == RStrip(LStrip(s))

MatchAt(sub, s, i) ==
    /\ i >= 1
    /\ i + Len(sub) - 1 <= Len(s)
    /\ SubSeq(s, i, i + Len(sub) - 1) = sub

Contains(sub, s) == \E i \in 1..(Len(s) + 1) : MatchAt(sub, s, i)

StartsWith(s, prefix) == MatchAt(prefix, s, 1)

RECURSIVE Replace(_, _, _)
Replace(s, old, new) ==
    IF s = <<>> THEN <<>>
    ELSE IF MatchAt(old, s, 1)
         THEN new \o Replace(SubSeq(s, Len(old) + 1, Len(s)), old, new)
         ELSE <<Head(s)>> \o Replace(Tail(s), old, new)

RECURSIVE Join(_, _)
Join(sep, parts) ==
    IF parts = <<>> THEN <<>>
    ELSE IF Len(parts) = 1 THEN parts[1]
    ELSE parts[1] \o sep \o Join(sep, Tail(parts))

RECURSIVE StrLess(_, _)
StrLess(a, b) ==
    IF a = <<>> THEN b # <<>>
    ELSE IF b = <<>> THEN FALSE
    ELSE IF Head(a) = Head(b) THEN StrLess(Tail(a), Tail(b))
    ELSE Ord(Head(a)) < Ord(Head(b))

RECURSIVE Sorted(_)
Sorted(S) ==
    IF S = {} THEN <<>>
    ELSE LET m == CHOOSE x \in S : \A y \in S \ {x} : StrLess(x, y)
         IN  <<m>> \o Sorted(S \ {m})

Reverse(q) == [i \in 1..Len(q) |-> q[Len(q) + 1 - i]]

ToSet(q) == {q[i] : i \in 1..Len(q)}

\* Iterating a Python set of str: the order depends on the process's hash seed.
\* The two orders below are all the orders of a set of at most two elements.
SetIter(S, seed) == IF seed = 1 THEN Reverse(Sorted(S)) ELSE Sorted(S)

RECURSIVE Split(_, _)
Split(s, sepc) ==
    IF \A i \in 1..Len(s) : s[i] # sepc THEN <<s>>
    ELSE LET k == CHOOSE i \in 1..Len(s) :
                      s[i] = sepc /\ \A j \in 1..(i - 1) : s[j] # sepc
         IN  <<SubSeq(s, 1, k - 1)>> \o Split(SubSeq(s, k + 1, Len(s)), sepc)

-----------------------------------------------------------------------------
(* int(), float()                                                           *)

IsSign(c) == c \in {"+", "-"}

AllDigits(s) == s # <<>> /\ \A i \in 1..Len(s) : s[i] \in Digits

RECURSIVE DecValue(_)
DecValue(s) ==
    IF s = <<>> THEN 0 ELSE 10 * DecValue(SubSeq(s, 1, Len(s) - 1)) + DigitVal(s[Len(s)])

Unsigned(s) == IF s # <<>> /\ IsSign(Head(s)) THEN Tail(s) ELSE s

SignOf(s) == IF s # <<>> /\ Head(s) = "-" THEN -1 ELSE 1

\* int(s) returns (no ValueError)
IntParses(s) == AllDigits(Unsigned(s))

IntOf(s) == SignOf(s) * DecValue(Unsigned(s))

\* float(s) returns, for s over digits, sign and "."
FloatParses(s) ==
    LET u == Unsigned(s)
        dots == {i \in 1..Len(u) : u[i] = "."}
    IN  /\ \A i \in 1..Len(u) : u[i] \in Digits \cup {"."}
        /\ Cardinality(dots) <= 1
        /\ \E i \in 1..Len(u) : u[i] \in Digits

RECURSIVE DropZeros(_)
DropZeros(s) ==
    IF s # <<>> /\ s[Len(s)] = "0" THEN DropZeros(SubSeq(s, 1, Len(s) - 1)) ELSE s

\* the value of float(s) as mantissa n and number of decimals e: n / 10^e
FloatOf(s) ==
    LET u == Unsigned(s)
        k == IF \E i \in 1..Len(u) : u[i] = "."
             THEN CHOOSE i \in 1..Len(u) : u[i] = "." ELSE Len(u) + 1
        ip == SubSeq(u, 1, k - 1)
        fp == DropZeros(SubSeq(u, k + 1, Len(u)))
    IN  [n |-> SignOf(s) * DecValue(ip \o fp), e |-> Len(fp)]

-----------------------------------------------------------------------------
(* Place                                                                    *)

NoInfo == <<"N","o"," ","i","n","f","o"," ","a","v","a","i","l","a","b","l","e">>

NoWebsite == <<"N","o"," ","w","e","b","s","i","t","e">>

\* values of the Optional[int] / Optional[float] fields
NoneVal == [t |-> "None", n |-> 0, e |-> 0, s |-> <<>>]

IntVal(k) == [t |-> "int", n |-> k, e |-> 0, s |-> <<>>]

FloatVal(f) == [t |-> "float", n |-> f.n, e |-> f.e, s |-> <<>>]

StrVal(str) == [t |-> "str", n |-> 0, e |-> 0, s |-> str]

Place ==
    [name |-> <<>>, maps_url |-> <<>>, email |-> <<>>, website |-> <<>>,
     address |-> <<>>, phone_number |-> <<>>,
     reviews_count |-> NoneVal, reviews_average |-> NoneVal,
     place_type |-> <<>>, introduction |-> <<>>, social_media_urls |-> <<>>,
     category |-> <<>>, latitude |-> <<>>, longitude |-> <<>>,
     weekly_hours |-> <<>>, tags |-> <<>>]

StrFields ==
    {"name", "maps_url", "email", "website", "address", "phone_number",
     "place_type", "introduction", "social_media_urls", "category",
     "latitude", "longitude", "weekly_hours", "tags"}

NumFields == {"reviews_count", "reviews_average"}

-----------------------------------------------------------------------------
(* The detail view: what each page operation of extract_place finds.        *)
(* An element is [st, txt]: st = "absent" (count() = 0), "raise" (the page  *)
(* operation raises) or "text" (inner_text() returns txt).                  *)

Absent == [st |-> "absent", txt |-> <<>>]

Raises == [st |-> "raise", txt |-> <<>>]

Txt(s) == [st |-> "text", txt |-> s]

extract_text(el) == IF el.st = "text" THEN el.txt ELSE <<>>

social_media_domains_list ==
    << <<"f","a","c","e","b","o","o","k",".","c","o","m">>,
       <<"i","n","s","t","a","g","r","a","m",".","c","o","m">>,
       <<"l","i","n","k","e","d","i","n",".","c","o","m">>,
       <<"t","w","i","t","t","e","r",".","c","o","m">>,
       <<"x",".","c","o","m">>,
       <<"y","o","u","t","u","b","e",".","c","o","m">> >>

\* for domain_part in social_media_domains_list: if domain_part in url.lower()
IsSocial(url) ==
    \E k \in 1..Len(social_media_domains_list) :
        Contains(social_media_domains_list[k], Lower(url))

\* requests.get is called (the website text is neither empty nor a sentinel)
FetchCalled(website_url) ==
    website_url # <<>> /\ website_url \notin {NoWebsite, NoInfo}

\* fetch = [st, emails]: st = "fail" (requests.get raises or times out),
\* "status" (status_code # 200) or "ok"; emails = re.findall(...) on the body
extract_email_from_website(website_url, fetch, seed) ==
    IF ~FetchCalled(website_url) THEN NoInfo
    ELSE IF fetch.st = "ok" /\ fetch.emails # <<>>
         THEN Join(<<",", " ">>, SetIter(ToSet(fetch.emails), seed))
         ELSE NoInfo

MapsUrl(v) ==
    LET l == v.place_link
    IN  IF l.st \in {"absent", "raise"} THEN v.url
        ELSE IF l.st = "href" /\ l.href # <<>> /\ StartsWith(l.href, <<"h","t","t","p">>)
             THEN l.href
        ELSE IF l.st = "href" /\ l.href # <<>>
             THEN <<"h","t","t","p","s",":","/","/","w","w","w",".","g","o","o","g","l","e",".","c","o","m">>
                  \o l.href
        ELSE NoInfo

MailtoEmails(v) ==
    IF v.mailto.st # "ok" THEN <<>>
    ELSE LET hs == SelectSeq(v.mailto.hrefs, LAMBDA h : h # <<>>)
         IN  [i \in 1..Len(hs) |-> Replace(hs[i], <<"m","a","i","l","t","o",":">>, <<>>)]

Email(v) ==
    LET emails == MailtoEmails(v)
        email == IF emails # <<>>
                 THEN Join(<<",", " ">>, SetIter(ToSet(emails), v.seed))
                 ELSE NoInfo
        email_from_site ==
            extract_email_from_website(extract_text(v.website), v.fetch, v.seed)
    IN  IF email = NoInfo /\ email_from_site # NoInfo THEN email_from_site ELSE email

is_main_website_social(v) ==
    extract_text(v.website) # <<>> /\ IsSocial(extract_text(v.website))

Website(v) ==
    LET extracted_website_url == extract_text(v.website)
    IN  IF is_main_website_social(v) THEN NoWebsite
        ELSE IF extracted_website_url # <<>> THEN extracted_website_url
        ELSE NoInfo

\* the loop over all_links_in_details: a link is [st, href], st = "raise"
\* (get_attribute raises), "none" (no href) or "href"
RECURSIVE SocialLinks(_, _)
SocialLinks(links, processed) ==
    IF links = <<>> THEN <<>>
    ELSE LET l == Head(links)
         IN  IF l.st = "href" /\ l.href # <<>> /\ l.href \notin processed
             THEN (IF IsSocial(l.href) THEN <<l.href>> ELSE <<>>)
                  \o SocialLinks(Tail(links), processed \cup {l.href})
             ELSE SocialLinks(Tail(links), processed)

\* a variant that forgets the website text: only the links of the pane
found_links_of_pane_only(v) == SocialLinks(v.links.hrefs, {})

found_social_media_links(v) ==
    (IF is_main_website_social(v) THEN <<extract_text(v.website)>> ELSE <<>>)
    \o SocialLinks(v.links.hrefs, {})

SocialMediaUrls(v) ==
    LET joined == Join(<<",", " ">>, Sorted(ToSet(found_social_media_links(v))))
    IN  IF joined # <<>> THEN joined ELSE NoInfo

CleanCount(raw) ==
    Replace(Replace(Replace(Replace(Replace(Replace(raw,
        <<"NBSP">>, <<>>), <<"NNBSP">>, <<>>), <<"(">>, <<>>),
        <<")">>, <<>>), <<",">>, <<>>), <<" ">>, <<>>)

ReviewsCount(v) ==
    LET reviews_count_raw == extract_text(v.reviews_count)
        temp == CleanCount(reviews_count_raw)
    IN  IF reviews_count_raw # <<>>
        THEN (IF IntParses(temp) THEN IntVal(IntOf(temp)) ELSE Place.reviews_count)
        ELSE StrVal(NoInfo)

CleanAverage(raw) == Replace(Replace(raw, <<" ">>, <<>>), <<",">>, <<".">>)

ReviewsAverage(v) ==
    LET reviews_avg_raw == extract_text(v.reviews_average)
        temp == CleanAverage(reviews_avg_raw)
    IN  IF reviews_avg_raw # <<>>
        THEN (IF FloatParses(temp) THEN FloatVal(FloatOf(temp)) ELSE Place.reviews_average)
        ELSE StrVal(NoInfo)

\* the loop over parts: [open, close] with <<>> for None (a part is never empty)
RECURSIVE HoursLoop(_, _)
HoursLoop(parts, oc) ==
    IF parts = <<>> THEN oc
    ELSE LET part == Head(parts)
             low == Lower(part)
         IN  IF StartsWith(low, <<"o","p","e","n">>)
             THEN HoursLoop(Tail(parts), [oc EXCEPT !.open = part])
             ELSE IF StartsWith(low, <<"c","l","o","s","e","s">>)
                     \/ StartsWith(low, <<"c","l","o","s","e">>)
             THEN HoursLoop(Tail(parts), [oc EXCEPT !.close = part])
             ELSE IF Contains(<<":">>, part) /\ oc.close = <<>>
             THEN HoursLoop(Tail(parts),
                      [oc EXCEPT !.close = <<"C","l","o","s","e","s"," ">> \o part])
             ELSE HoursLoop(Tail(parts), oc)

HoursOf(raw) ==
    LET pieces == Split(raw, "CDOT")
        stripped == [i \in 1..Len(pieces) |-> Strip(pieces[i])]
        parts == SelectSeq(stripped, LAMBDA q : q # <<>>)
        oc == HoursLoop(parts, [open |-> <<>>, close |-> <<>>])
    IN  IF oc.open # <<>> /\ oc.close # <<>> THEN oc.open \o <<",", " ">> \o oc.close
        ELSE IF oc.open # <<>> THEN oc.open
        ELSE IF oc.close # <<>> THEN oc.close
        ELSE Replace(raw, <<"NNBSP">>, <<>>)

Worktime(v) ==
    LET opens_at_raw == extract_text(v.opens_at)
        opens_at2_raw == extract_text(v.opens_at2)
    IN  IF opens_at_raw # <<>> THEN HoursOf(opens_at_raw)
        ELSE IF opens_at2_raw # <<>> THEN HoursOf(opens_at2_raw)
        ELSE NoInfo

\* re.search(r'@([\d\.\-]+),([\d\.\-]+),', url): [found, lat, lng]
CoordChars == Digits \cup {".", "-"}

RunEnd(u, i) ==
    IF \E j \in i..Len(u) : u[j] \notin CoordChars
    THEN (CHOOSE j \in i..Len(u) :
              u[j] \notin CoordChars /\ \A k \in i..(j - 1) : u[k] \in CoordChars)
    ELSE Len(u) + 1

CoordMatchAt(u, i) ==
    LET a == RunEnd(u, i + 1)
        b == RunEnd(u, a + 1)
    IN  /\ u[i] = "@"
        /\ a > i + 1 /\ a <= Len(u) /\ u[a] = ","
        /\ b > a + 1 /\ b <= Len(u) /\ u[b] = ","

Geolocation(u) ==
    IF \E i \in 1..Len(u) : CoordMatchAt(u, i)
    THEN LET i == CHOOSE i \in 1..Len(u) :
                      CoordMatchAt(u, i) /\ \A j \in 1..(i - 1) : ~CoordMatchAt(u, j)
             a == RunEnd(u, i + 1)
             b == RunEnd(u, a + 1)
         IN  [found |-> TRUE, lat |-> SubSeq(u, i + 1, a - 1), lng |-> SubSeq(u, a + 1, b - 1)]
    ELSE [found |-> FALSE, lat |-> <<>>, lng |-> <<>>]

\* hours_table = [st, rows]: st = "absent", "raise" or "ok"; a row is its <td> texts
WeeklyHours(v) ==
    IF v.hours_table.st # "ok" THEN NoInfo
    ELSE LET rows == SelectSeq(v.hours_table.rows, LAMBDA cols : Len(cols) >= 2)
             hours == [i \in 1..Len(rows) |->
                          Strip(rows[i][1]) \o <<":", " ">> \o Strip(rows[i][2])]
         IN  IF hours # <<>> THEN Join(<<";", " ">>, hours) ELSE NoInfo

\* the loop over tag_els; an inner_text() that raises ends the loop (one try around it)
RECURSIVE TagsLoop(_, _)
TagsLoop(els, tags) ==
    IF els = <<>> \/ Head(els).st # "text" THEN tags
    ELSE LET tag == Strip(Head(els).txt)
         IN  IF tag # <<>> /\ tag \notin ToSet(tags)
             THEN TagsLoop(Tail(els), Append(tags, tag))
             ELSE TagsLoop(Tail(els), tags)

Tags(v) ==
    LET tags == IF v.tag_els.st = "ok" THEN TagsLoop(v.tag_els.els, <<>>) ELSE <<>>
    IN  IF tags # <<>> THEN Join(<<",", " ">>, tags) ELSE NoInfo

OrNoInfo(s) == IF s # <<>> THEN s ELSE NoInfo

Introduction(v) ==
    LET intro_val == extract_text(v.intro)
    IN  IF intro_val # <<>> /\ Strip(intro_val) # <<>> THEN intro_val ELSE NoInfo

\* page.locator('div[role="main"] a[href*="http"]').all() is outside every try
ExtractRaises(v) == v.links.st = "raise"

\* the Place extract_place returns (when it returns); worktime is an attribute
\* set on the instance, not a field of the dataclass
extract_place(v) ==
    [Place EXCEPT
        !.name = OrNoInfo(extract_text(v.name)),
        !.maps_url = MapsUrl(v),
        !.email = Email(v),
        !.website = Website(v),
        !.address = OrNoInfo(extract_text(v.address)),
        !.phone_number = OrNoInfo(extract_text(v.phone_number)),
        !.place_type = OrNoInfo(extract_text(v.place_type)),
        !.introduction = Introduction(v),
        !.social_media_urls = SocialMediaUrls(v),
        !.reviews_count = ReviewsCount(v),
        !.reviews_average = ReviewsAverage(v),
        !.latitude = OrNoInfo(Geolocation(v.url).lat),
        !.longitude = OrNoInfo(Geolocation(v.url).lng),
        !.weekly_hours = WeeklyHours(v),
        !.tags = Tags(v)]
    @@ [worktime |-> Worktime(v)]

-----------------------------------------------------------------------------
(* Detail views the checks draw from                                        *)

UrlFacebook ==
    <<"h","t","t","p","s",":","/","/","f","a","c","e","b","o","o","k",".","c","o","m","/","x">>

UrlFacebookUpper ==
    <<"h","t","t","p","s",":","/","/","F","a","c","e","B","o","o","k",".","c","o","m","/","x">>

UrlInstagram ==
    <<"h","t","t","p","s",":","/","/","i","n","s","t","a","g","r","a","m",".","c","o","m","/","y">>

UrlNetflix ==
    <<"h","t","t","p","s",":","/","/","n","e","t","f","l","i","x",".","c","o","m">>

UrlExample ==
    <<"h","t","t","p","s",":","/","/","e","x","a","m","p","l","e",".","o","r","g">>

HrefPlace ==
    <<"h","t","t","p","s",":","/","/","w","w","w",".","g","o","o","g","l","e",".","c","o","m","/","m","a","p","s","/","p","l","a","c","e","/","a","/","@","3","4",".","2","6",",","-","6",".","5","8",",","1","7","z","/","d","a","t","a">>

HrefPlaceRel ==
    <<"/","m","a","p","s","/","p","l","a","c","e","/","a">>

UrlSearch ==
    <<"h","t","t","p","s",":","/","/","w","w","w",".","g","o","o","g","l","e",".","c","o","m","/","m","a","p","s","/","s","e","a","r","c","h","/","a">>

MailA ==
    <<"m","a","i","l","t","o",":","a","@","b",".","c","o">>

MailB ==
    <<"m","a","i","l","t","o",":","c","@","d",".","c","o">>

MailEmpty ==
    <<"m","a","i","l","t","o",":">>

EmailA ==
    <<"a","@","b",".","c","o">>

EmailC ==
    <<"e","@","f",".","c","o">>

Count1234 ==
    <<"(","1",",","2","3","4",")">>

TextNA ==
    <<"N","/","A">>

\* the longest raw text of the enumerated review-count / review-average texts
MaxRawLen == 2

SeqsUpTo(S, n) == UNION {[1..k -> S] : k \in 0..n}

CountTexts ==
    SeqsUpTo({"1", "2", "0", "(", ")", ",", " ", "NBSP", "NNBSP", "N", "-", "."}, MaxRawLen)
    \cup {Count1234, TextNA}

AverageTexts ==
    SeqsUpTo({"4", "5", "0", ".", ",", " ", "N", "-"}, MaxRawLen)
    \cup {<<"4",",","5">>, <<"4",".","5","0">>, TextNA}

BaseView ==
    [name |-> Txt(<<"a">>), address |-> Txt(<<"s">>), website |-> Absent,
     phone_number |-> Absent, reviews_count |-> Absent, reviews_average |-> Absent,
     opens_at |-> Absent, opens_at2 |-> Absent, place_type |-> Absent, intro |-> Absent,
     place_link |-> [st |-> "absent", href |-> <<>>], url |-> UrlSearch,
     mailto |-> [st |-> "ok", hrefs |-> <<>>],
     fetch |-> [st |-> "fail", emails |-> <<>>],
     links |-> [st |-> "ok", hrefs |-> <<>>],
     hours_table |-> [st |-> "absent", rows |-> <<>>],
     tag_els |-> [st |-> "ok", els |-> <<>>],
     seed |-> 0]

Elems(texts) == {Absent, Raises} \cup {Txt(s) : s \in texts}

Link(h) == [st |-> "href", href |-> h]

LinkLists ==
    SeqsUpTo({Link(UrlFacebook), Link(UrlInstagram), Link(UrlExample), Link(<<>>),
              [st |-> "none", href |-> <<>>], [st |-> "raise", href |-> <<>>]}, 2)

NumericViews ==
    {[BaseView EXCEPT !.reviews_count = c] : c \in Elems(CountTexts)}
    \cup {[BaseView EXCEPT !.reviews_average = a] : a \in Elems(AverageTexts)}

WebsiteViews ==
    {[BaseView EXCEPT !.website = w, !.links = l] :
        w \in Elems({<<>>, UrlFacebook, UrlFacebookUpper, UrlNetflix, UrlExample}),
        l \in {[st |-> "ok", hrefs |-> h] : h \in LinkLists}
              \cup {[st |-> "raise", hrefs |-> <<>>]}}

EmailViews ==
    {[BaseView EXCEPT !.mailto = m, !.fetch = f, !.website = w, !.seed = sd] :
        m \in {[st |-> "raise", hrefs |-> <<>>]}
              \cup {[st |-> "ok", hrefs |-> h] :
                       h \in {<<>>, <<MailA>>, <<MailA, MailB>>, <<MailA, MailA>>, <<MailEmpty>>}},
        f \in {[st |-> "fail", emails |-> <<>>], [st |-> "status", emails |-> <<>>],
               [st |-> "ok", emails |-> <<>>], [st |-> "ok", emails |-> <<EmailC>>],
               [st |-> "ok", emails |-> <<EmailC, EmailA, EmailC>>]},
        w \in {Absent, Txt(UrlExample), Txt(NoWebsite)},
        sd \in {0, 1}}

KeyViews ==
    {[BaseView EXCEPT !.name = n, !.address = a, !.intro = i] :
        n \in Elems({<<>>, <<"a">>, <<" ", "a">>, <<"a", "NBSP">>, <<"b">>, <<" ">>}),
        a \in Elems({<<>>, <<"s">>, <<"s", " ">>, <<"t">>}),
        i \in Elems({<<>>, <<" ">>, <<"i">>})}

PaneViews ==
    {[BaseView EXCEPT !.place_link = l, !.url = u, !.phone_number = ph, !.place_type = ty] :
        l \in {[st |-> "absent", href |-> <<>>], [st |-> "raise", href |-> <<>>],
               [st |-> "none", href |-> <<>>], [st |-> "href", href |-> <<>>],
               [st |-> "href", href |-> HrefPlace], [st |-> "href", href |-> HrefPlaceRel]},
        u \in {UrlSearch, HrefPlace, <<"@", "1", ",", "2">>, <<"@", ",", "2", ",">>},
        ph \in {Absent, Txt(<<"+","2","1","2"," ","5">>)},
        ty \in {Absent, Txt(<<"C","a","f","e">>)}}

HoursViews ==
    {[BaseView EXCEPT !.opens_at = o, !.opens_at2 = o2, !.hours_table = h, !.tag_els = g] :
        o \in Elems({<<"O","p","e","n"," ","CDOT"," ","C","l","o","s","e","s"," ","9">>,
                     <<"9",":","0","0">>, <<"NNBSP">>, <<"2","4","h">>}),
        o2 \in {Absent, Txt(<<"C","l","o","s","e","d">>)},
        h \in {[st |-> "absent", rows |-> <<>>], [st |-> "raise", rows |-> <<>>],
               [st |-> "ok", rows |-> <<>>],
               [st |-> "ok", rows |-> << <<<<"M","o">>, <<" ","9","-","5">>>>, <<<<"T","u">>>> >>]},
        g \in {[st |-> "raise", els |-> <<>>], [st |-> "ok", els |-> <<>>],
               [st |-> "ok", els |-> <<Txt(<<"C","a","f","e">>), Txt(<<"C","a","f","e"," ">>),
                                        Txt(<<" ">>), Txt(<<"B","a","r">>)>>],
               [st |-> "ok", els |-> <<Txt(<<"B","a","r">>), Raises, Txt(<<"C","a","f","e">>)>>]}}

DetailViews ==
    NumericViews \cup WebsiteViews \cup EmailViews \cup KeyViews \cup PaneViews \cup HoursViews

-----------------------------------------------------------------------------
(* The walk: scrape_places called with a browser, and the loop of           *)
(* _scrape_places_with_browser                                              *)

max_scroll_attempts == 10

\* the largest target count (total) a walk is started with
MaxTotal == 2

\* the most listing containers one scroll cycle enumerates
MaxListings == 2

\* the most per-listing failures of one walk
MaxErrors == 1

\* the detail views a click of the walk may bring up
WalkViews ==
    << [BaseView EXCEPT !.name = Txt(<<"a">>)],
       [BaseView EXCEPT !.name = Txt(<<" ", "a">>), !.address = Txt(<<"s", " ">>),
                        !.reviews_count = Txt(TextNA)],
       [BaseView EXCEPT !.name = Absent],
       [BaseView EXCEPT !.links = [st |-> "raise", hrefs |-> <<>>]] >>

\* extract_place on each of them
ExtractedPlace == [k \in 1..Len(WalkViews) |-> extract_place(WalkViews[k])]

ExtractionRaises == [k \in 1..Len(WalkViews) |-> ExtractRaises(WalkViews[k])]

\* what opening one listing gives: the click or the wait for the title raises
\* (v = 0), or the detail view WalkViews[v] is shown
ListingFails == [kind |-> "fail", v |-> 0]

ListingShows(k) == [kind |-> "view", v |-> k]

ListingOutcomes == {ListingFails} \cup {ListingShows(k) : k \in 1..Len(WalkViews)}

\* the locals of scrape_places and _scrape_places_with_browser; pc:
\*   "new_page" "search" "scroll" "visit" "endcycle" "finally" "return" "returned" "raised"
\* exit is what follows the finally block. History, not read by the code:
\* cycles counts the scroll cycles begun, extracted_first holds the first Place
\* extracted for each (trimmed name, trimmed address), dup_skipped whether an
\* extraction was dropped because its key was already held, failed counts the
\* listings whose click, wait or extraction raised, keys_before is the number of
\* unique keys held when the current scroll cycle began, stalled the number of
\* scroll cycles in a row, up to the last one whose for loop ran to its end,
\* that ended with no more keys than they began with. The containers a cycle
\* enumerates are numbered by their place in the list, which keeps the
\* containers it held in the cycle before at their places: opened is the
\* highest place clicked so far (every cycle clicks from place 1 on), reopened
\* whether a place clicked before was clicked again; close tells whether
\* page.close() was called and how it ended ("none", "done", "raised")
WalkStart(total) ==
    [pc |-> "new_page", total |-> total, browser |-> "open", page |-> "none",
     places |-> <<>>, unique_keys |-> {}, errors |-> <<>>,
     scroll_attempts |-> 0, last_unique_count |-> 0, listings_seen |-> {},
     listings |-> 0, idx |-> 0, exit |-> "none",
     cycles |-> 0, extracted_first |-> {}, dup_skipped |-> FALSE, failed |-> 0,
     keys_before |-> 0, stalled |-> 0, opened |-> 0, reopened |-> FALSE,
     close |-> "none"]

WalkOff == [WalkStart(0) EXCEPT !.pc = "off"]

\* page = browser.new_page()
WalkNewPage(w, ok) ==
    IF ok THEN [w EXCEPT !.pc = "search", !.page = "open"]
    ELSE [w EXCEPT !.pc = "raised"]

\* goto, fill, press, wait_for_selector, hover (lines 307-316)
WalkSearch(w, ok) ==
    IF ok THEN [w EXCEPT !.pc = "scroll", !.scroll_attempts = 0,
                         !.last_unique_count = 0, !.listings_seen = {}]
    ELSE [w EXCEPT !.pc = "finally", !.exit = "raise"]

\* the for loop ran to its end (no break): listings and idx are dead from here
\* on and are reset to 0
EndOfLoop(w) ==
    [w EXCEPT !.pc = "endcycle", !.listings = 0, !.idx = 0,
              !.stalled = IF Cardinality(w.unique_keys) = w.keys_before THEN @ + 1 ELSE 0]

\* wheel, waits and the enumeration of the n listing containers (lines 319-323);
\* n = 0 when the links wait_for_selector saw are gone by the time of all()
WalkScroll(w, ok, n) ==
    IF ok
    THEN LET w1 == [w EXCEPT !.cycles = @ + 1,
                             !.keys_before = Cardinality(w.unique_keys)]
         IN  IF n = 0 THEN EndOfLoop(w1)
             ELSE [w1 EXCEPT !.pc = "visit", !.listings = n, !.idx = 1]
    ELSE [w EXCEPT !.pc = "finally", !.exit = "raise", !.cycles = @ + 1]

\* a variant of the key without strip()
KeyUntrimmed(p) == <<p.name, p.address>>

\* key = (place.name.strip(), place.address.strip())
Key(p) == <<Strip(p.name), Strip(p.address)>>

\* listings and idx are dead once the for loop is left: they are reset to 0
LeaveLoop(w, pc) == [w EXCEPT !.pc = pc, !.listings = 0, !.idx = 0]

NextListing(w) ==
    IF w.idx >= w.listings THEN EndOfLoop(w)
    ELSE [w EXCEPT !.idx = @ + 1]

FirstOfKey(firsts, p) ==
    IF \E q \in firsts : Strip(q.name) = Strip(p.name) /\ Strip(q.address) = Strip(p.address)
    THEN firsts ELSE firsts \cup {p}

\* a variant of the for loop's body without its try/except: a failing listing
\* ends the walk through the finally block
WalkVisitUncaught(w, o) ==
    IF o.kind = "fail" \/ ExtractionRaises[o.v]
    THEN [LeaveLoop([w EXCEPT !.failed = @ + 1], "finally") EXCEPT !.exit = "raise"]
    ELSE LET p == ExtractedPlace[o.v]
             key == Key(p)
             w1 == IF p.name # <<>> /\ key \notin w.unique_keys
                   THEN [w EXCEPT !.unique_keys = @ \cup {key},
                                  !.places = Append(@, p),
                                  !.extracted_first = FirstOfKey(@, p)]
                   ELSE [w EXCEPT !.dup_skipped = TRUE,
                                  !.extracted_first = FirstOfKey(@, p)]
         IN  IF Len(w1.places) >= w1.total
             THEN [LeaveLoop(w1, "finally") EXCEPT !.exit = "return"]
             ELSE NextListing(w1)

\* listing.click() on the container at place w.idx (line 326)
Click(w) ==
    [w EXCEPT !.reopened = @ \/ w.idx <= w.opened,
              !.opened = IF w.idx > @ THEN w.idx ELSE @]

\* one pass of the for loop (lines 324-341) on listing w.idx
WalkVisit(w, o) ==
    IF o.kind = "fail" \/ ExtractionRaises[o.v]
    THEN NextListing([Click(w) EXCEPT !.errors = Append(@, w.idx), !.failed = @ + 1])
    ELSE LET p == ExtractedPlace[o.v]
             key == Key(p)
             w0 == [Click(w) EXCEPT !.extracted_first = FirstOfKey(@, p)]
             w1 == IF p.name # <<>> /\ key \notin w.unique_keys
                   THEN [w0 EXCEPT !.unique_keys = @ \cup {key},
                                   !.places = Append(@, p)]
                   ELSE [w0 EXCEPT !.dup_skipped = TRUE]
         IN  IF Len(w1.places) >= w1.total
             THEN [LeaveLoop(w1, "finally") EXCEPT !.exit = "return"]
             ELSE NextListing(w1)

\* a variant of the stall test that stops one stalled cycle later (> for >=)
WalkEndCycleLate(w) ==
    IF Len(w.places) >= w.total THEN [w EXCEPT !.pc = "finally", !.exit = "return"]
    ELSE LET sa == IF Cardinality(w.unique_keys) = w.last_unique_count
                   THEN w.scroll_attempts + 1 ELSE 0
             w1 == [w EXCEPT !.scroll_attempts = sa,
                             !.last_unique_count = Cardinality(w.unique_keys)]
         IN  IF sa > max_scroll_attempts
             THEN [w1 EXCEPT !.pc = "finally", !.exit = "return"]
             ELSE [w1 EXCEPT !.pc = "scroll"]

\* a variant of the stall logic that never resets the counter
WalkEndCycleNoReset(w) ==
    IF Len(w.places) >= w.total THEN [w EXCEPT !.pc = "finally", !.exit = "return"]
    ELSE LET sa == IF Cardinality(w.unique_keys) = w.last_unique_count
                   THEN w.scroll_attempts + 1 ELSE w.scroll_attempts
             w1 == [w EXCEPT !.scroll_attempts = sa,
                             !.last_unique_count = Cardinality(w.unique_keys)]
         IN  IF sa >= max_scroll_attempts
             THEN [w1 EXCEPT !.pc = "finally", !.exit = "return"]
             ELSE [w1 EXCEPT !.pc = "scroll"]

\* after the for loop (lines 342-351)
WalkEndCycle(w) ==
    IF Len(w.places) >= w.total THEN [w EXCEPT !.pc = "finally", !.exit = "return"]
    ELSE LET sa == IF Cardinality(w.unique_keys) = w.last_unique_count
                   THEN w.scroll_attempts + 1 ELSE 0
             w1 == [w EXCEPT !.scroll_attempts = sa,
                             !.last_unique_count = Cardinality(w.unique_keys)]
         IN  IF sa >= max_scroll_attempts
             THEN [w1 EXCEPT !.pc = "finally", !.exit = "return"]
             ELSE [w1 EXCEPT !.pc = "scroll"]

\* a variant with "return places" inside the finally block: the return
\* replaces the exception in flight
WalkFinallyReturns(w, ok) ==
    IF ok THEN [w EXCEPT !.page = "closed", !.pc = "return"]
    ELSE [w EXCEPT !.pc = "raised"]

\* a variant whose finally block also closes the browser it was given
WalkFinallyClosesBrowser(w, ok) ==
    IF ok THEN [w EXCEPT !.page = "closed", !.browser = "closed",
                         !.pc = IF w.exit = "return" THEN "return" ELSE "raised"]
    ELSE [w EXCEPT !.pc = "raised"]

\* a variant that closes the page after the try block instead of in a finally
\* clause: an exception in flight skips page.close()
WalkCloseAfterTry(w, ok) ==
    IF w.exit = "raise" THEN [w EXCEPT !.pc = "raised"]
    ELSE IF ok THEN [w EXCEPT !.page = "closed", !.close = "done", !.pc = "return"]
    ELSE [w EXCEPT !.pc = "raised", !.close = "raised"]

\* finally: page.close() (lines 352-354)
WalkFinally(w, ok) ==
    IF ok THEN [w EXCEPT !.page = "closed", !.close = "done",
                         !.pc = IF w.exit = "return" THEN "return" ELSE "raised"]
    ELSE [w EXCEPT !.pc = "raised", !.close = "raised"]

\* scrape_places after the walk returned (lines 295-300): the lines it appends
\* to scrape_errors.log
ErrorLines(w) == w.errors

\* the orchestrator's variables when no orchestrator runs
RunOff ==
    [frontend |-> "none", pc |-> "off", jobs |-> <<>>, total |-> 0, job |-> <<>>,
     next |-> 0, results |-> <<>>, location_results |-> <<>>, all_places |-> <<>>,
     overtaken |-> FALSE]

InitWalk ==
    /\ walk \in {WalkStart(t) : t \in 0..MaxTotal}
    /\ errlog = <<>>
    /\ view = BaseView
    /\ place = Place
    /\ xpc = "off"
    /\ run = RunOff

NewPage ==
    /\ walk.pc = "new_page"
    /\ \E ok \in BOOLEAN : walk' = WalkNewPage(walk, ok)
    /\ UNCHANGED <<view, place, xpc, errlog, run>>

Search ==
    /\ walk.pc = "search"
    /\ \E ok \in BOOLEAN : walk' = WalkSearch(walk, ok)
    /\ UNCHANGED <<view, place, xpc, errlog, run>>

Scroll ==
    /\ walk.pc = "scroll"
    /\ \E ok \in BOOLEAN, n \in 0..MaxListings : walk' = WalkScroll(walk, ok, n)
    /\ UNCHANGED <<view, place, xpc, errlog, run>>

Visit ==
    /\ walk.pc = "visit"
    /\ \E o \in ListingOutcomes :
          /\ (o.kind = "fail" \/ ExtractionRaises[o.v]) => Len(walk.errors) < MaxErrors
          /\ walk' = WalkVisit(walk, o)
    /\ UNCHANGED <<view, place, xpc, errlog, run>>

EndCycle ==
    /\ walk.pc = "endcycle"
    /\ walk' = WalkEndCycle(walk)
    /\ UNCHANGED <<view, place, xpc, errlog, run>>

Finally ==
    /\ walk.pc = "finally"
    /\ \E ok \in BOOLEAN : walk' = WalkFinally(walk, ok)
    /\ UNCHANGED <<view, place, xpc, errlog, run>>

ScrapePlacesReturn ==
    /\ walk.pc = "return"
    /\ walk' = [walk EXCEPT !.pc = "returned"]
    /\ errlog' = errlog \o ErrorLines(walk)
    /\ UNCHANGED <<view, place, xpc, run>>

NextWalk ==
    NewPage \/ Search \/ Scroll \/ Visit \/ EndCycle \/ Finally \/ ScrapePlacesReturn

SpecWalk == InitWalk /\ [][NextWalk]_vars

\* every page operation returns or raises: a started step completes
SpecWalkFair == SpecWalk /\ WF_vars(NextWalk)

-----------------------------------------------------------------------------
(* The walk when the progress bar may fail. pbar.update(1) (line 334) is      *)
(* inside the try of the for loop, after places.append and before the test   *)
(* of the target (line 335)                                                  *)

\* one pass of the for loop; ok tells whether pbar.update(1) returns when it
\* is called (it is called only when a Record was appended)
WalkVisitNotify(w, o, ok) ==
    IF o.kind = "fail" \/ ExtractionRaises[o.v] \/ ok THEN WalkVisit(w, o)
    ELSE LET p == ExtractedPlace[o.v]
             key == Key(p)
         IN  IF p.name # <<>> /\ key \notin w.unique_keys
             THEN NextListing([Click(w) EXCEPT !.extracted_first = FirstOfKey(@, p),
                                               !.unique_keys = @ \cup {key},
                                               !.places = Append(@, p),
                                               !.errors = Append(@, w.idx)])
             ELSE WalkVisit(w, o)

VisitNotify ==
    /\ walk.pc = "visit"
    /\ \E o \in ListingOutcomes, ok \in BOOLEAN :
          /\ (o.kind = "fail" \/ ExtractionRaises[o.v] \/ ~ok) => Len(walk.errors) < MaxErrors
          /\ walk' = WalkVisitNotify(walk, o, ok)
    /\ UNCHANGED <<view, place, xpc, errlog, run>>

NextNotify ==
    NewPage \/ Search \/ Scroll \/ VisitNotify \/ EndCycle \/ Finally \/ ScrapePlacesReturn

SpecNotify == InitWalk /\ [][NextNotify]_vars

-----------------------------------------------------------------------------
(* Claims about the walk                                                    *)

WalkEnded == walk.pc \in {"returned", "raised"}

TrimmedPair(p) == <<Strip(p.name), Strip(p.address)>>

\* C1: the list the walk returns holds no two Records with the same (trimmed
\* name, trimmed address) pair, and the Record it holds for a pair is the one of
\* the first extraction that yielded the pair.
C1_Deduplication ==
    walk.pc \in {"return", "returned"} =>
        /\ \A i, j \in 1..Len(walk.places) :
              i # j => TrimmedPair(walk.places[i]) # TrimmedPair(walk.places[j])
        /\ ToSet(walk.places) = walk.extracted_first

\* a returned list of two Records, one of them first extracted with padding
\* around its name, after a later extraction of an already held pair was dropped
C1_Witness ==
    /\ walk.pc = "returned"
    /\ Len(walk.places) = 2
    /\ walk.dup_skipped
    /\ \E i \in 1..2 : walk.places[i].name = <<" ", "a">>

\* C2: the returned list has at most total Records, and a listing is opened only
\* while fewer than total Records are collected (stated for every total >= 0).
C2_BoundedByTarget ==
    /\ walk.pc \in {"return", "returned"} => Len(walk.places) <= walk.total
    /\ walk.pc = "visit" => Len(walk.places) < walk.total

\* the position of the walk in its run: the scroll cycle it is in or about to
\* begin, and within the cycle the step it is at
WalkRank(w) ==
    LET cyc == IF w.pc = "scroll" THEN w.cycles + 1 ELSE w.cycles
        at == CASE w.pc = "new_page" -> 0
                [] w.pc = "search" -> 1
                [] w.pc = "scroll" -> 0
                [] w.pc = "visit" -> w.idx
                [] w.pc = "endcycle" -> MaxListings + 1
                [] w.pc = "finally" -> MaxListings + 2
                [] w.pc = "return" -> MaxListings + 3
                [] OTHER -> MaxListings + 4
    IN  cyc * (MaxListings + 5) + at

\* C3: when every page operation returns or raises, the walk ends, whatever the
\* feed yields: until it has ended a step is possible, every step moves it
\* forward, it begins at most 10 * total scroll cycles (one cycle for
\* total = 0), and it does end.
C3_Termination ==
    /\ [](WalkEnded \/ ENABLED NextWalk)
    /\ [][WalkRank(walk') > WalkRank(walk)]_vars
    /\ [](walk.cycles <= IF walk.total >= 1 THEN 10 * walk.total ELSE 1)
    /\ <>WalkEnded

\* an exhausted feed: the walk returned fewer than total Records after exactly
\* 10 * total cycles
C3_Witness ==
    /\ walk.pc = "returned"
    /\ walk.total = 2
    /\ Len(walk.places) = 1
    /\ walk.cycles = 10 * walk.total
    /\ walk.scroll_attempts = max_scroll_attempts

IsPrefix(a, b) == Len(a) <= Len(b) /\ SubSeq(b, 1, Len(a)) = a

\* C11: a listing whose click, wait or extraction fails never ends the walk: the
\* failure is recorded (one error entry per failed listing), the Records held
\* are untouched, the walk goes on with the next listing of the same cycle (or
\* ends the cycle after the last one), and no step of the walk ever removes a
\* Record, so the list returned holds every Record collected before the failure.
C11_ListingFailureAbsorbed ==
    /\ [](Len(walk.errors) = walk.failed)
    /\ [][IsPrefix(walk.places, walk'.places)]_vars
    /\ [][(walk.pc = "visit" /\ walk'.failed # walk.failed) =>
              /\ walk'.errors = Append(walk.errors, walk.idx)
              /\ walk'.places = walk.places
              /\ walk'.unique_keys = walk.unique_keys
              /\ walk'.cycles = walk.cycles
              /\ walk'.exit = "none"
              /\ IF walk.idx < walk.listings
                 THEN walk'.pc = "visit" /\ walk'.idx = walk.idx + 1
                 ELSE walk'.pc = "endcycle"]_vars

\* the first cycle is over: its listing 1 gave a Record, its listing 2 failed
\* and was recorded, and the Record is still held
C11_Witness ==
    /\ walk.pc = "endcycle"
    /\ walk.cycles = 1
    /\ walk.errors = <<2>>
    /\ Len(walk.places) = 1

\* C15: an exception of new_page, of the search steps (goto, fill, press, the
\* first wait for a listing link, hover) or of a scroll cycle's wheel, wait or
\* enumeration ends the walk with that exception (or the one page.close()
\* raises in its place): these steps leave the try block only with an
\* exception in flight, a walk with an exception in flight is in the finally
\* block or has raised, and a walk that returns a list had none, so the Records
\* held when the error occurred are not returned.
C15_SessionErrorRaises ==
    /\ [][walk.pc = "new_page" => walk'.pc \in {"search", "raised"}]_vars
    /\ [][(walk.pc \in {"search", "scroll"} /\ walk'.pc = "finally")
              => walk'.exit = "raise"]_vars
    /\ [][walk.exit = "raise" => walk'.exit = "raise"]_vars
    /\ [](walk.exit = "raise" => walk.pc \in {"finally", "raised"})
    /\ [](walk.pc \in {"return", "returned"} => walk.exit = "return")

\* the second scroll cycle raised after the first had collected a Record, and
\* page.close() succeeded: the walk has raised
C15_Witness ==
    /\ walk.pc = "raised"
    /\ walk.exit = "raise"
    /\ walk.page = "closed"
    /\ walk.cycles = 2
    /\ Len(walk.places) = 1

\* C17: the browser given to the walk stays open from the first step of the
\* walk to its end, however it ends; the only thing the walk closes is its own
\* page, which is closed when the walk returns a list and never before the
\* finally block.
C17_GivenSessionLeftOpen ==
    /\ walk.browser = "open"
    /\ walk.pc \in {"return", "returned"} => walk.page = "closed"
    /\ walk.page = "closed" => walk.pc \in {"return", "returned", "raised"}

\* the walk returned with its target reached: its page is closed, the browser
\* is open
C17_Witness ==
    /\ walk.pc = "returned"
    /\ walk.total = 2
    /\ Len(walk.places) = walk.total
    /\ walk.page = "closed"
    /\ walk.browser = "open"

\* the walk left its loop at line 349-351: it is past the loop with a list to
\* return that is short of the target
Exhausted(w) ==
    /\ w.pc \in {"finally", "return", "returned"}
    /\ w.exit = "return"
    /\ Len(w.places) < w.total

\* C19: at the start of and within a scroll cycle the stall counter is the
\* number of cycles in a row, up to the last completed one, that added no
\* unique key; a cycle that ran to its end short of the target sets it to that
\* number, ends the walk with a normal return of the Records held when the
\* number is 10, and begins another cycle otherwise; and a walk that returns
\* short of its target did so after exactly 10 such cycles in a row.
C19_ExhaustionAfterTenStalls ==
    /\ [](walk.pc \in {"scroll", "visit"} => walk.scroll_attempts = walk.stalled)
    /\ [][(walk.pc = "endcycle" /\ Len(walk.places) < walk.total) =>
              /\ walk'.scroll_attempts = walk.stalled
              /\ walk'.places = walk.places
              /\ IF walk.stalled >= 10
                 THEN walk'.pc = "finally" /\ walk'.exit = "return"
                 ELSE walk'.pc = "scroll"]_vars
    /\ [](Exhausted(walk) => walk.stalled = 10 /\ walk.scroll_attempts = 10)
    /\ [](walk.stalled <= 10)

\* a walk for two Records returned one: its first cycle added no key, its
\* second added one, and the ten after that none
C19_Witness ==
    /\ walk.pc = "returned"
    /\ walk.total = 2
    /\ Len(walk.places) = 1
    /\ walk.cycles = 12
    /\ walk.stalled = 10

\* C20: no listing container is clicked twice in a walk: a cycle clicks only
\* containers that no cycle before it clicked.
C20_NoListingReopened == ~walk.reopened

\* C21: every Record the walk holds was extracted from a detail view whose
\* title element gave a non-empty text: an extraction with no title text adds
\* no Record.
C21_RecordOnlyWithName ==
    \A i \in 1..Len(walk.places) :
        \E k \in 1..Len(WalkViews) :
            /\ ~ExtractionRaises[k]
            /\ ExtractedPlace[k] = walk.places[i]
            /\ extract_text(WalkViews[k].name) # <<>>

\* C23: whether the progress notification of a listing succeeds or fails, the
\* pass of the for loop on that listing leaves the walk with the Records and
\* at the position (next listing, end of the cycle, or end of the walk) that
\* the same listing gives with a successful notification.
C23_NotificationAdvisory ==
    [][walk.pc = "visit" =>
          \E o \in ListingOutcomes :
              /\ walk'.places = WalkVisit(walk, o).places
              /\ walk'.pc = WalkVisit(walk, o).pc
              /\ walk'.idx = WalkVisit(walk, o).idx
              /\ walk'.exit = WalkVisit(walk, o).exit]_vars

\* C27: on every way the walk ends after it opened its page (target reached,
\* feed exhausted, an exception of the search, of a scroll cycle or of an
\* extraction), page.close() has been called, exactly when the walk left its
\* try block; the page is closed whenever that call returned, and a walk ends
\* with its page open only when page.close() itself raised.
C27_PageClosedOnExit ==
    /\ (WalkEnded /\ walk.page # "none") => walk.close # "none"
    /\ walk.close = "done" => walk.page = "closed"
    /\ (WalkEnded /\ walk.page = "open") => walk.close = "raised"
    /\ walk.pc \in {"new_page", "search", "scroll", "visit", "endcycle", "finally"}
          => walk.close = "none"

\* the walk raised in its second scroll cycle, after a listing of the first
\* had failed, and its page is closed
C27_Witness ==
    /\ walk.pc = "raised"
    /\ walk.exit = "raise"
    /\ walk.failed = 1
    /\ walk.cycles = 2
    /\ walk.close = "done"
    /\ walk.page = "closed"

\* C14: every failure of a listing is appended to the accumulated errors, and
\* however the walk ends (return or exception) scrape_errors.log then holds
\* every one of them.
C14_ErrorsReachLog ==
    /\ Len(walk.errors) = walk.failed
    /\ WalkEnded => errlog = ErrorLines(walk)

-----------------------------------------------------------------------------
(* extract_place on one detail view                                         *)

InitExtract ==
    /\ view \in DetailViews
    /\ place = Place
    /\ xpc = "ready"
    /\ walk = WalkOff
    /\ errlog = <<>>
    /\ run = RunOff

\* extract_place passes the website text to extract_email_from_website
\* whatever the mailto links gave (lines 110-111): whether requests.get ran
WebsiteFetched(v) == FetchCalled(extract_text(v.website))

\* fetched records, next to the Place returned, whether the website was requested
ExtractReturns ==
    /\ xpc = "ready"
    /\ ~ExtractRaises(view)
    /\ place' = extract_place(view) @@ [fetched |-> WebsiteFetched(view)]
    /\ xpc' = "returned"
    /\ UNCHANGED <<view, walk, errlog, run>>

ExtractRaise ==
    /\ xpc = "ready"
    /\ ExtractRaises(view)
    /\ xpc' = "raised"
    /\ UNCHANGED <<view, place, walk, errlog, run>>

NextExtract == ExtractReturns \/ ExtractRaise

SpecExtract == InitExtract /\ [][NextExtract]_vars

-----------------------------------------------------------------------------
(* Claims about extract_place                                               *)

\* the fields extract_place assigns: every field of the dataclass but category,
\* which the caller of the walk assigns
ExtractedFields == (StrFields \cup NumFields) \ {"category"}

\* C8: every field of a Record extract_place returns is a parsed value or a
\* sentinel: no text field is the empty string and no numeric field is None.
C8_SentinelTotality ==
    xpc = "returned" =>
        /\ \A f \in ExtractedFields \cap StrFields : place[f] # <<>>
        /\ \A f \in ExtractedFields \cap NumFields : place[f] # NoneVal

\* C9: raw review-count / review-average text that parses once cleaned gives the
\* number ("(1,234)" gives 1234), raw text that does not parse gives the
\* not-available sentinel, and the raw text never makes extract_place raise.
C9_NumericTolerance ==
    LET c == extract_text(view.reviews_count)
        a == extract_text(view.reviews_average)
    IN  /\ (xpc = "raised") => view.links.st = "raise"
        /\ (xpc = "returned" /\ c = Count1234) => place.reviews_count = IntVal(1234)
        /\ (xpc = "returned" /\ c # <<>>) =>
              place.reviews_count =
                  IF IntParses(CleanCount(c)) THEN IntVal(IntOf(CleanCount(c)))
                  ELSE StrVal(NoInfo)
        /\ (xpc = "returned" /\ a # <<>>) =>
              place.reviews_average =
                  IF FloatParses(CleanAverage(a)) THEN FloatVal(FloatOf(CleanAverage(a)))
                  ELSE StrVal(NoInfo)

\* the social-media URLs of the detail view: the website text when it holds a
\* known domain, and the href of every link of the pane that holds one
SocialUrlsOfView(v) ==
    (IF IsSocial(extract_text(v.website)) THEN {extract_text(v.website)} ELSE {})
    \cup {v.links.hrefs[i].href : i \in {k \in 1..Len(v.links.hrefs) :
              v.links.hrefs[k].st = "href" /\ IsSocial(v.links.hrefs[k].href)}}

\* the URLs a ", "-joined text lists, in its order
ListedUrls(text) ==
    LET parts == Split(text, ",")
    IN  [i \in 1..Len(parts) |-> IF i = 1 THEN parts[i] ELSE Tail(parts[i])]

\* C10: when the website text of the detail view holds a known social-media
\* domain, the Record has website = "No website", and social_media_urls lists,
\* joined by ", ", in strictly ascending order (so without repetition), exactly
\* that URL and the social-media links of the pane.
C10_SocialSeparation ==
    (xpc = "returned" /\ IsSocial(extract_text(view.website))) =>
        LET urls == ListedUrls(place.social_media_urls)
        IN  /\ place.website = NoWebsite
            /\ Contains(extract_text(view.website), place.social_media_urls)
            /\ ToSet(urls) = SocialUrlsOfView(view)
            /\ \A i \in 1..(Len(urls) - 1) : StrLess(urls[i], urls[i + 1])
            /\ place.social_media_urls = Join(<<",", " ">>, urls)

\* a website text with an upper-case social domain, and a pane that links to
\* instagram twice
C10_Witness ==
    /\ xpc = "returned"
    /\ view.website = Txt(UrlFacebookUpper)
    /\ view.links.hrefs = <<Link(UrlInstagram), Link(UrlInstagram)>>
    /\ place.website = NoWebsite
    /\ place.social_media_urls = Join(<<",", " ">>, <<UrlFacebookUpper, UrlInstagram>>)

\* C22: extract_place requests the website only when the detail view has no
\* mailto link; a single mailto link gives its address as the email; and with
\* no mailto address a fetch that fails, times out or answers another status
\* than 200 gives the sentinel.
C22_FetchOnlyWithoutMailto ==
    xpc = "returned" =>
        /\ place.fetched => (view.mailto.st = "ok" /\ view.mailto.hrefs = <<>>)
        /\ (view.mailto.st = "ok" /\ view.mailto.hrefs = <<MailA>>)
              => place.email = Replace(MailA, <<"m","a","i","l","t","o",":">>, <<>>)
        /\ (MailtoEmails(view) = <<>> /\ view.fetch.st # "ok") => place.email = NoInfo

\* the host of a URL or of a bare host name, in lower case: what follows
\* "https://" up to the first "/"
HostOf(url) ==
    LET scheme == <<"h","t","t","p","s",":","/","/">>
        low == Lower(url)
        rest == IF StartsWith(low, scheme) THEN SubSeq(low, Len(scheme) + 1, Len(low))
                ELSE low
    IN  Split(rest, "/")[1]

EndsWith(s, suffix) ==
    Len(suffix) <= Len(s) /\ SubSeq(s, Len(s) - Len(suffix) + 1, Len(s)) = suffix

\* the host is one of the six listed domains, or a subdomain of one
HostIsListed(h) ==
    \E k \in 1..Len(social_media_domains_list) :
        \/ h = social_media_domains_list[k]
        \/ EndsWith(h, <<".">> \o social_media_domains_list[k])

\* C28: a website text whose host is none of the six listed social-media
\* domains is the Record's website, unchanged, and is not among its
\* social_media_urls (for instance a host that only contains "x.com").
C28_OtherHostsKept ==
    LET w == extract_text(view.website)
    IN  (xpc = "returned" /\ w # <<>> /\ ~HostIsListed(HostOf(w))) =>
            /\ place.website = w
            /\ w \notin ToSet(ListedUrls(place.social_media_urls))

\* C12: extract_place returns a Record for every state of the detail view: it
\* never raises, and a field whose page operation fails (the text reads, the
\* enumeration of the links of the pane) holds its sentinel.
C12_FieldFailuresAbsorbed ==
    /\ xpc # "raised"
    /\ xpc = "returned" =>
          /\ view.name = Raises => place.name = NoInfo
          /\ view.address = Raises => place.address = NoInfo
          /\ view.phone_number = Raises => place.phone_number = NoInfo
          /\ view.place_type = Raises => place.place_type = NoInfo
          /\ view.intro = Raises => place.introduction = NoInfo
          /\ view.website = Raises => place.website = NoInfo
          /\ view.mailto.st = "raise" /\ ~FetchCalled(extract_text(view.website))
                => place.email = NoInfo
          /\ view.tag_els.st = "raise" => place.tags = NoInfo
          /\ view.hours_table.st = "raise" => place.weekly_hours = NoInfo

-----------------------------------------------------------------------------
(* The orchestrators: main (single job and thread pool), the GUI's           *)
(* run_scraper, and scrape_places called without a browser                   *)

\* the category and location lists the user enters (non-empty, items stripped)
CategoryLists == {<< <<"A">> >>, << <<"A">>, <<"B">> >>}

LocationLists == {<< <<"x">> >>, << <<"x">>, <<"y">> >>}

\* jobs = [(cat, loc) for cat in categories for loc in locations]
Jobs(categories, locations) ==
    [k \in 1..(Len(categories) * Len(locations)) |->
        [cat |-> categories[((k - 1) \div Len(locations)) + 1],
         loc |-> locations[((k - 1) % Len(locations)) + 1]]]

\* a feed that answers every scroll cycle alike: whether new_page, the search,
\* the scroll and page.close() succeed, and what opening each listing gives
Feed(np, se, sc, os, cl) ==
    [new_page |-> np, search |-> se, scroll |-> sc, outcomes |-> os, close |-> cl]

WalkFeeds ==
    {Feed(TRUE, TRUE, TRUE, <<ListingShows(1)>>, TRUE),
     Feed(TRUE, TRUE, TRUE, <<ListingFails, ListingShows(2), ListingShows(1)>>, TRUE),
     Feed(TRUE, FALSE, TRUE, <<>>, TRUE),
     Feed(FALSE, TRUE, TRUE, <<>>, TRUE)}

\* the step of _scrape_places_with_browser at w.pc, on a feed
WalkStep(w, f) ==
    CASE w.pc = "new_page" -> WalkNewPage(w, f.new_page)
      [] w.pc = "search" -> WalkSearch(w, f.search)
      [] w.pc = "scroll" -> WalkScroll(w, f.scroll, Len(f.outcomes))
      [] w.pc = "visit" -> WalkVisit(w, f.outcomes[w.idx])
      [] w.pc = "endcycle" -> WalkEndCycle(w)
      [] w.pc = "finally" -> WalkFinally(w, f.close)
      [] OTHER -> w

\* _scrape_places_with_browser run to its end on a feed (each step is
\* evaluated before the next one is taken)
RECURSIVE RunWalk(_, _)
RunWalk(w, f) ==
    IF w.pc \in {"return", "raised"} THEN w
    ELSE CHOOSE r \in {RunWalk(x, f) : x \in {WalkStep(w, f)}} : TRUE

\* what a walk that has ended gives scrape_places: the list it returns and the
\* errors it collected, or an exception
OutcomeOf(w) ==
    IF w.pc = "return"
    THEN [st |-> "return", places |-> w.places, errors |-> ErrorLines(w)]
    ELSE [st |-> "raise", places |-> <<>>, errors |-> <<>>]

\* the outcomes of the walk on the feeds, for each target count of a run
WalkOutcomes ==
    [total \in {1, MaxTotal} |->
        {OutcomeOf(w) : w \in {RunWalk(WalkStart(total), f) : f \in WalkFeeds}}]

\* a variant without the category loop: the Records keep the default category
CategoryUnset(places, cat) == places

\* for place in places: place.category = cat
SetCategory(places, cat) ==
    [i \in 1..Len(places) |-> [places[i] EXCEPT !.category = cat]]

\* one job: pc is "pending" "entered" "launched" "scraped" "returned" "failed"
\* "cancelled"; pw is the Playwright driver, browser the session; closed_by
\* tells what closed the session ("close": browser.close(), "exit": the end of
\* the with block)
JobPending ==
    [pc |-> "pending", pw |-> "none", browser |-> "none", closed_by |-> "none",
     places |-> <<>>, errors |-> <<>>]

\* leaving the with block without stopping the sessions of the driver
ExitPlaywrightOnly(j) == [j EXCEPT !.pw = "stopped"]

\* leaving "with sync_playwright() as p": the driver is stopped, and with it
\* every browser it launched that is still open
ExitPlaywright(j) ==
    [j EXCEPT !.pw = "stopped",
              !.browser = IF @ = "open" THEN "closed" ELSE @,
              !.closed_by = IF j.browser = "open" THEN "exit" ELSE @]

\* with sync_playwright() as p
JobEnter(j, ok) ==
    IF ok THEN [j EXCEPT !.pc = "entered", !.pw = "running"]
    ELSE [j EXCEPT !.pc = "failed"]

\* browser = p.chromium.launch(...)
JobLaunch(j, ok) ==
    IF ok THEN [j EXCEPT !.pc = "launched", !.browser = "open"]
    ELSE [ExitPlaywright(j) EXCEPT !.pc = "failed"]

\* places = scrape_places(full_query, total, browser=browser), then the
\* category loop
JobScrape(j, out, places) ==
    IF out.st = "return"
    THEN [j EXCEPT !.pc = "scraped", !.places = places, !.errors = out.errors]
    ELSE [ExitPlaywright(j) EXCEPT !.pc = "failed"]

\* browser.close() and the end of the with block
JobClose(j, ok) ==
    IF ok
    THEN [ExitPlaywright([j EXCEPT !.browser = "closed", !.closed_by = "close"])
             EXCEPT !.pc = "returned"]
    ELSE [ExitPlaywright(j) EXCEPT !.pc = "failed"]

\* a dict as the sequence of its items in insertion order
HasKey(d, k) == \E i \in 1..Len(d) : d[i].loc = k

\* d[k] = v
DictSet(d, k, v) ==
    IF HasKey(d, k)
    THEN [i \in 1..Len(d) |-> IF d[i].loc = k THEN [loc |-> k, places |-> v] ELSE d[i]]
    ELSE Append(d, [loc |-> k, places |-> v])

\* a variant of the merge that puts a list before the Records the location
\* already holds
ExtendInFront(d, k, v) ==
    IF HasKey(d, k)
    THEN [i \in 1..Len(d) |->
             IF d[i].loc = k THEN [loc |-> k, places |-> v \o d[i].places] ELSE d[i]]
    ELSE Append(d, [loc |-> k, places |-> v])

\* a variant of the merge that keeps only the first list of a location
ExtendNewKeyOnly(d, k, v) ==
    IF HasKey(d, k) THEN d ELSE Append(d, [loc |-> k, places |-> v])

\* if loc not in location_results: location_results[loc] = []
\* location_results[loc].extend(places)
DictExtend(d, k, v) ==
    IF HasKey(d, k)
    THEN [i \in 1..Len(d) |->
             IF d[i].loc = k THEN [loc |-> k, places |-> d[i].places \o v] ELSE d[i]]
    ELSE Append(d, [loc |-> k, places |-> v])

\* for loc, places in results: ...
RECURSIVE MergeResults(_, _)
MergeResults(results, location_results) ==
    IF results = <<>> THEN location_results
    ELSE MergeResults(Tail(results),
             DictExtend(location_results, Head(results).loc, Head(results).places))

\* overtaken is history: whether a job returned while a job before it in the
\* list was still pending or running
RunStart(frontend, jobs, total) ==
    [frontend |-> frontend,
     pc |-> IF frontend = "main" /\ Len(jobs) > 1 THEN "map" ELSE "loop",
     jobs |-> jobs, total |-> total, job |-> [i \in 1..Len(jobs) |-> JobPending],
     next |-> 1, results |-> <<>>, location_results |-> <<>>, all_places |-> <<>>,
     overtaken |-> FALSE]

\* the job is one whose code may take a step: the job of the loop, or any job
\* of the thread pool (its workers run on while main waits in shutdown)
Runnable(i) ==
    \/ run.pc = "loop" /\ i = run.next
    \/ run.pc \in {"map", "shutdown"}

\* what the thread that runs the jobs one after the other does once job i has
\* moved: main's single-job path raises when the job failed, run_scraper logs
\* the error and returns, scrape_places raises to its caller
AfterJob(r, i) ==
    LET j == r.job[i]
        loc == r.jobs[i].loc
    IN  IF r.pc # "loop" THEN r
        ELSE IF j.pc = "failed"
        THEN [r EXCEPT !.pc = IF r.frontend = "gui" THEN "error_logged" ELSE "raised"]
        ELSE IF j.pc = "scraped" /\ r.frontend = "main"
        THEN [r EXCEPT !.location_results = DictSet(@, loc, j.places)]
        ELSE IF j.pc = "scraped" /\ r.frontend = "gui"
        THEN [r EXCEPT !.location_results = DictSet(@, loc, j.places),
                       !.all_places = @ \o j.places]
        ELSE IF j.pc = "returned" /\ r.frontend = "scrape_places"
        THEN [r EXCEPT !.pc = "returned"]
        ELSE IF j.pc = "returned"
        THEN [r EXCEPT !.next = @ + 1,
                       !.pc = IF i = Len(r.jobs) THEN "export" ELSE @]
        ELSE r

InitRun ==
    /\ \E frontend \in {"main", "gui"}, categories \in CategoryLists,
          locations \in LocationLists, total \in {1, MaxTotal} :
          run \in {RunStart(frontend, Jobs(categories, locations), total),
                   RunStart("scrape_places", Jobs(<< <<"A">> >>, << <<"x">> >>), total)}
    /\ walk = WalkOff
    /\ errlog = <<>>
    /\ view = BaseView
    /\ place = Place
    /\ xpc = "off"

EnterPlaywright ==
    /\ \E i \in 1..Len(run.jobs), ok \in BOOLEAN :
          /\ Runnable(i)
          /\ run.job[i].pc = "pending"
          /\ run' = AfterJob([run EXCEPT !.job[i] = JobEnter(@, ok)], i)
    /\ UNCHANGED <<view, place, xpc, walk, errlog>>

LaunchBrowser ==
    /\ \E i \in 1..Len(run.jobs), ok \in BOOLEAN :
          /\ Runnable(i)
          /\ run.job[i].pc = "entered"
          /\ run' = AfterJob([run EXCEPT !.job[i] = JobLaunch(@, ok)], i)
    /\ UNCHANGED <<view, place, xpc, walk, errlog>>

\* scrape_places with the job's browser writes the errors of a walk that
\* returned to scrape_errors.log; called without a browser it writes them after
\* browser.close()
ScrapeJob ==
    /\ \E i \in 1..Len(run.jobs), out \in WalkOutcomes[run.total] :
          /\ Runnable(i)
          /\ run.job[i].pc = "launched"
          /\ \E places \in {IF run.frontend = "scrape_places" THEN out.places
                              ELSE SetCategory(out.places, run.jobs[i].cat)} :
                run' = AfterJob([run EXCEPT !.job[i] = JobScrape(@, out, places)], i)
          /\ errlog' = IF run.frontend = "scrape_places" THEN errlog
                       ELSE errlog \o out.errors
    /\ UNCHANGED <<view, place, xpc, walk>>

CloseBrowser ==
    /\ \E i \in 1..Len(run.jobs), ok \in BOOLEAN :
          /\ Runnable(i)
          /\ run.job[i].pc = "scraped"
          /\ run' = AfterJob([run EXCEPT
                                 !.job[i] = JobClose(@, ok),
                                 !.overtaken = @ \/ (ok /\ \E k \in 1..(i - 1) :
                                     run.job[k].pc \in {"pending", "entered",
                                                        "launched", "scraped"})], i)
          /\ errlog' = IF run.frontend = "scrape_places" /\ ok
                       THEN errlog \o run.job[i].errors ELSE errlog
    /\ UNCHANGED <<view, place, xpc, walk>>

\* list(executor.map(scrape_job, jobs)) takes the results in the order of the
\* jobs; the result of a failed job re-raises its exception in main, and the
\* futures not yet running are cancelled. After the last result, the merge
\* loop runs and main goes on to the export
Collect ==
    /\ run.pc = "map"
    /\ LET k == run.next
           j == run.job[k]
       IN  \/ /\ j.pc = "returned"
              /\ LET results == Append(run.results,
                                       [loc |-> run.jobs[k].loc, places |-> j.places])
                 IN  run' = IF k < Len(run.jobs)
                            THEN [run EXCEPT !.results = results, !.next = k + 1]
                            ELSE [run EXCEPT !.results = results, !.next = k + 1,
                                             !.location_results = MergeResults(results, <<>>),
                                             !.pc = "export"]
           \/ /\ j.pc = "failed"
              /\ \E cancelled \in SUBSET {i \in 1..Len(run.jobs) : run.job[i].pc = "pending"} :
                    run' = [run EXCEPT
                               !.pc = "shutdown",
                               !.job = [i \in 1..Len(run.jobs) |->
                                           IF i \in cancelled
                                           THEN [run.job[i] EXCEPT !.pc = "cancelled"]
                                           ELSE run.job[i]]]
    /\ UNCHANGED <<view, place, xpc, walk, errlog>>

\* the end of "with ThreadPoolExecutor": main waits for the running jobs, then
\* the exception leaves main
Shutdown ==
    /\ run.pc = "shutdown"
    /\ \A i \in 1..Len(run.jobs) : run.job[i].pc \in {"returned", "failed", "cancelled"}
    /\ run' = [run EXCEPT !.pc = "raised"]
    /\ UNCHANGED <<view, place, xpc, walk, errlog>>

NextRun ==
    EnterPlaywright \/ LaunchBrowser \/ ScrapeJob \/ CloseBrowser \/ Collect \/ Shutdown

SpecRun == InitRun /\ [][NextRun]_vars

-----------------------------------------------------------------------------
(* The configuration main and run_scraper read before the first job          *)

\* [item.strip() for item in user_input.split(',') if item.strip()]
ParseList(text) ==
    LET items == Split(text, ",")
    IN  SelectSeq([i \in 1..Len(items) |-> Strip(items[i])], LAMBDA item : item # <<>>)

\* what the user enters: the texts of the categories and of the locations, the
\* answers to the location-mode and export-type prompts (for the GUI the item
\* of its export combo box, which is not editable), the text of the number of
\* results (for the GUI the value of its spin box), and whether
\* os.makedirs(output_dir, exist_ok=True) succeeds
ConfigInputs ==
    [frontend |-> {"main", "gui"},
     categories |-> {<<>>, <<" ", ",">>, <<"A">>},
     location_mode |-> {"1", "2", "3"},
     locations |-> {<<>>, <<",", " ">>, <<"x">>, <<"x", ",", " ", "y">>},
     export_choice |-> {<<"1">>, <<"2">>, <<"3">>, <<"4">>, <<"E", "x", "c", "e", "l">>,
                        <<"J", "S", "O", "N">>, <<"H", "T", "M", "L">>},
     total |-> {<<"1">>, <<"x">>},
     makedirs |-> BOOLEAN]

Configs ==
    {c \in [frontend : ConfigInputs.frontend, categories : ConfigInputs.categories,
            location_mode : ConfigInputs.location_mode, locations : ConfigInputs.locations,
            export_choice : ConfigInputs.export_choice, total : ConfigInputs.total,
            makedirs : ConfigInputs.makedirs] :
        IF c.frontend = "main" THEN Len(c.export_choice) = 1
        ELSE /\ Len(c.export_choice) > 1
             /\ c.location_mode \in {"1", "2"}
             /\ c.total = <<"1">>}

\* a variant of main's checks without the test of the locations
main_config_no_locations_test(c) ==
    IF ParseList(c.categories) = <<>> THEN "rejected"
    ELSE IF c.location_mode \notin {"1", "2"} THEN "rejected"
    ELSE IF c.export_choice \notin {<<"1">>, <<"2">>, <<"3">>} THEN "rejected"
    ELSE IF ~IntParses(Strip(c.total)) THEN "rejected"
    ELSE IF ~c.makedirs THEN "raised"
    ELSE "ok"

\* main from its first prompt to the line before jobs is built: "rejected" is
\* a message and return, "raised" the exception of os.makedirs
main_config(c) ==
    IF ParseList(c.categories) = <<>> THEN "rejected"
    ELSE IF c.location_mode \notin {"1", "2"} THEN "rejected"
    ELSE IF ParseList(c.locations) = <<>> THEN "rejected"
    ELSE IF c.export_choice \notin {<<"1">>, <<"2">>, <<"3">>} THEN "rejected"
    ELSE IF ~IntParses(Strip(c.total)) THEN "rejected"
    ELSE IF ~c.makedirs THEN "raised"
    ELSE "ok"

\* run_scraper up to the line before jobs is built; the exception of
\* os.makedirs is caught by the except clause around the whole body
run_scraper_config(c) ==
    IF ParseList(c.categories) = <<>> THEN "rejected"
    ELSE IF ParseList(c.locations) = <<>> THEN "rejected"
    ELSE IF ~c.makedirs THEN "error_logged"
    ELSE "ok"

ConfigState(c) ==
    [RunOff EXCEPT !.frontend = c.frontend, !.pc = "config"] @@ [config |-> c]

InitConfig ==
    /\ run \in {ConfigState(c) : c \in Configs}
    /\ walk = WalkOff
    /\ errlog = <<>>
    /\ view = BaseView
    /\ place = Place
    /\ xpc = "off"

Configure ==
    /\ run.pc = "config"
    /\ \E st \in {IF run.frontend = "main" THEN main_config(run.config)
                   ELSE run_scraper_config(run.config)} :
          run' = IF st = "ok"
                 THEN RunStart(run.frontend,
                               Jobs(ParseList(run.config.categories),
                                    ParseList(run.config.locations)),
                               IntOf(Strip(run.config.total)))
                 ELSE [run EXCEPT !.pc = st]
    /\ UNCHANGED <<view, place, xpc, walk, errlog>>

\* the jobs run once jobs is built (lines 686-727, gui.py 183-227); total is
\* assigned only by then
NextConfig ==
    \/ Configure
    \/ EnterPlaywright
    \/ LaunchBrowser
    \/ (run.jobs # <<>> /\ ScrapeJob)
    \/ CloseBrowser
    \/ Collect
    \/ Shutdown

SpecConfig == InitConfig /\ [][NextConfig]_vars

-----------------------------------------------------------------------------
(* Claims about the orchestrators                                           *)

JobEnded(i) == run.job[i].pc \in {"returned", "failed", "cancelled"}

PoolOfMain == run.frontend = "main" /\ Len(run.jobs) > 1

\* the Records the dict holds under a key
PlacesAt(d, loc) ==
    IF HasKey(d, loc) THEN d[CHOOSE i \in 1..Len(d) : d[i].loc = loc].places ELSE <<>>

\* C4: in the thread pool of main, when a job has failed and main is done, every
\* job that did not fail has returned, main has reached the export, and the
\* Records of every job that returned are in the merged result under its location.
C4_JobIsolation ==
    (PoolOfMain /\ run.pc \in {"export", "raised"}
        /\ \E i \in 1..Len(run.jobs) : run.job[i].pc = "failed") =>
        /\ \A i \in 1..Len(run.jobs) : run.job[i].pc \in {"returned", "failed"}
        /\ run.pc = "export"
        /\ \A i \in 1..Len(run.jobs) :
              run.job[i].pc = "returned" =>
                  ToSet(run.job[i].places)
                      \subseteq ToSet(PlacesAt(run.location_results, run.jobs[i].loc))

\* C5: main never raises because a job failed: with a failed job it still
\* reaches the export once no job of it runs any more, and the mapping then
\* holds no Record of a failed job (single-job path and thread pool).
C5_CaughtAtJobBoundary ==
    run.frontend = "main" =>
        /\ run.pc # "raised"
        /\ run.pc = "export" =>
              \A i \in 1..Len(run.jobs) :
                  run.job[i].pc = "failed" =>
                      ToSet(run.job[i].places)
                          \cap ToSet(PlacesAt(run.location_results, run.jobs[i].loc)) = {}

\* the Records returned by the jobs k..Len(jobs) that have the location, in the
\* order of the jobs
RECURSIVE RecordsOfLocation(_, _)
RecordsOfLocation(loc, k) ==
    IF k > Len(run.jobs) THEN <<>>
    ELSE (IF run.jobs[k].loc = loc THEN run.job[k].places ELSE <<>>)
         \o RecordsOfLocation(loc, k + 1)

\* C6: the mapping main hands to the export has exactly one key per distinct
\* location of the jobs, and the list of a location is the concatenation, in job
\* order, of the Records returned by the jobs of that location.
C6_Aggregation ==
    (run.frontend = "main" /\ run.pc = "export") =>
        LET d == run.location_results
        IN  /\ {d[i].loc : i \in 1..Len(d)} = {run.jobs[i].loc : i \in 1..Len(run.jobs)}
            /\ \A i, j \in 1..Len(d) : i # j => d[i].loc # d[j].loc
            /\ \A i \in 1..Len(d) : d[i].places = RecordsOfLocation(d[i].loc, 1)

\* four jobs, two categories on each of two locations: two keys, the first
\* holding a Record of category A followed by one of category B
C6_Witness ==
    /\ run.frontend = "main"
    /\ run.pc = "export"
    /\ Len(run.jobs) = 4
    /\ Len(run.location_results) = 2
    /\ LET l == run.location_results[1].places
       IN  /\ Len(l) = 2
           /\ l[1].category = <<"A">>
           /\ l[2].category = <<"B">>
           /\ l[1].name # l[2].name

C13_CategoryOfJob ==
    run.frontend \in {"main", "gui"} =>
        /\ \A i \in 1..Len(run.jobs) : \A k \in 1..Len(run.job[i].places) :
              run.job[i].places[k].category = run.jobs[i].cat
        /\ \A m \in 1..Len(run.location_results) :
              \A k \in 1..Len(run.location_results[m].places) :
                  \E i \in 1..Len(run.jobs) :
                      /\ run.jobs[i].loc = run.location_results[m].loc
                      /\ run.location_results[m].places[k] \in ToSet(run.job[i].places)
                      /\ run.location_results[m].places[k].category = run.jobs[i].cat
        /\ \A k \in 1..Len(run.all_places) :
              \E i \in 1..Len(run.jobs) :
                  /\ run.all_places[k] \in ToSet(run.job[i].places)
                  /\ run.all_places[k].category = run.jobs[i].cat

\* run_scraper reached its export after two jobs on one location: the list of
\* all Records holds one of category A and one of category B, the mapping only
\* the Records of the second job
C13_Witness ==
    /\ run.frontend = "gui"
    /\ run.pc = "export"
    /\ Len(run.jobs) = 2
    /\ run.jobs[1].loc = run.jobs[2].loc
    /\ \E k \in 1..Len(run.all_places) : run.all_places[k].category = <<"A">>
    /\ \E k \in 1..Len(run.all_places) : run.all_places[k].category = <<"B">>
    /\ \A k \in 1..Len(run.location_results[1].places) :
          run.location_results[1].places[k].category = <<"B">>

\* the job's worker thread is inside scrape_job
JobRunning(i) == run.job[i].pc \in {"entered", "launched", "scraped"}

\* C18: in the thread pool of main, every session belongs to the one job that
\* launched it, the location mapping is written only when no worker runs any
\* more, and no step of a job writes scrape_errors.log while another job is
\* running.
C18_NoSharedWrites ==
    /\ [][(PoolOfMain /\ run'.location_results # run.location_results)
              => \A i \in 1..Len(run.jobs) : ~JobRunning(i)]_vars
    /\ [][(PoolOfMain /\ errlog' # errlog)
              => \A i \in 1..Len(run.jobs) :
                    run'.job[i] # run.job[i]
                        => \A k \in 1..Len(run.jobs) : k # i => ~JobRunning(k)]_vars

\* C24: in the location mapping, at every point of a run, the list of a
\* location holds no two Records with the same (trimmed name, trimmed address)
\* pair, whatever their categories.
C24_MergedListDeduplicated ==
    \A m \in 1..Len(run.location_results) :
        LET l == run.location_results[m].places
        IN  \A i, j \in 1..Len(l) : i # j => TrimmedPair(l[i]) # TrimmedPair(l[j])

\* the number of Records returned by the jobs before job i that have its location
RECURSIVE BlockStart(_, _)
BlockStart(i, k) ==
    IF k >= i THEN 0
    ELSE (IF run.jobs[k].loc = run.jobs[i].loc THEN Len(run.job[k].places) ELSE 0)
         + BlockStart(i, k + 1)

C26_GuiMappingAsMain ==
    (run.frontend = "gui" /\ run.pc = "export") =>
        /\ \A i \in 1..Len(run.jobs) :
              PlacesAt(run.location_results, run.jobs[i].loc)
                  = RecordsOfLocation(run.jobs[i].loc, 1)
        /\ \A k \in 1..Len(run.all_places) :
              \E m \in 1..Len(run.location_results) :
                  run.all_places[k] \in ToSet(run.location_results[m].places)

\* the export type is one the front end knows
ExportValid(c) ==
    IF c.frontend = "main" THEN c.export_choice \in {<<"1">>, <<"2">>, <<"3">>}
    ELSE Lower(c.export_choice) \in {<<"e", "x", "c", "e", "l">>, <<"j", "s", "o", "n">>,
                                     <<"h", "t", "m", "l">>}

ConfigInvalid(c) ==
    ParseList(c.categories) = <<>> \/ ParseList(c.locations) = <<>> \/ ~ExportValid(c)

\* C16: in main and in run_scraper, a configuration with no category, no
\* location or an unknown export type is rejected by the step that reads it,
\* with no job built; a rejected run takes no further step, and no job and no
\* session exists before the configuration is accepted.
C16_ConfigRejectedFirst ==
    /\ [][(run.pc = "config" /\ ConfigInvalid(run.config))
              => (run'.pc = "rejected" /\ run'.jobs = <<>> /\ run'.job = <<>>)]_vars
    /\ [][run.pc # "rejected"]_vars
    /\ [](run.pc \in {"config", "rejected"} => (run.jobs = <<>> /\ run.job = <<>>))

\* main returned on export choice "4", after categories and locations that
\* were both accepted
C16_Witness ==
    /\ run.pc = "rejected"
    /\ run.frontend = "main"
    /\ run.config.export_choice = <<"4">>
    /\ ParseList(run.config.categories) = << <<"A">> >>
    /\ ParseList(run.config.locations) = << <<"x">>, <<"y">> >>
    /\ run.job = <<>>

====
